---- MODULE Spec2Model ----
(***************************************************************************)
(* A model of the comic-book archive plugin src/cb.c: the scan of an       *)
(* archive into a sorted page list (cb_document_open, read_archive), the   *)
(* page objects (cb_page_init), the per-render fetch of one entry          *)
(* (cb_page_render_cairo, load_pixbuf_from_archive) and the release of the *)
(* document (cb_document_free).                                            *)
(*                                                                         *)
(* The archive is a sequence of entries, each with a path, a file type and *)
(* the dimensions its image header holds.  How libarchive cuts an entry's  *)
(* data into blocks, and where a read fails, is chosen by the environment  *)
(* at every call, within MaxBlocks calls per entry.                        *)
(***************************************************************************)
EXTENDS Integers, Sequences, FiniteSets, TLC

(* ------------------------------ bounds --------------------------------- *)
MaxEntries == 2
MaxBlocks == 2
MaxClose == 2
MaxLive == 1

(* --------------------- libarchive return codes ------------------------- *)
ARCHIVE_EOF == 1
ARCHIVE_OK == 0
ARCHIVE_WARN == -20
ARCHIVE_FAILED == -25
ARCHIVE_FATAL == -30

(* ------------------------------ strings -------------------------------- *)
\* A C string is a sequence of characters; NULL is no string at all.
NULL == <<"NULL">>

Paths ==
  { <<"a", ".", "p">>, <<"A", ".", "p">>, <<"a", ".", "P">>,
    <<"b", ".", "t", ".", "p">>, <<"c">> }

\* The extensions the image-format registry reports (cb_document_open).
supported_extensions == << <<"q">>, <<"p">> >>

\* g_utf8_casefold: every letter to its lower-case form.
Lower(c) == IF c = "A" THEN "a" ELSE IF c = "P" THEN "p" ELSE c

g_utf8_casefold(s) == [i \in 1..Len(s) |-> Lower(s[i])]

\* The collation weight of a character.
Rank(c) ==
  CASE c = "." -> 0
    [] c = "A" -> 1
    [] c = "P" -> 2
    [] c = "a" -> 3
    [] c = "b" -> 4
    [] c = "c" -> 5
    [] c = "p" -> 6
    [] c = "q" -> 7
    [] c = "t" -> 8

RECURSIVE g_utf8_collate(_, _)
\* g_utf8_collate: the strings compared character by character.
g_utf8_collate(s, t) ==
  IF s = <<>> /\ t = <<>> THEN 0
  ELSE IF s = <<>> THEN -1
  ELSE IF t = <<>> THEN 1
  ELSE IF Rank(Head(s)) < Rank(Head(t)) THEN -1
  ELSE IF Rank(Head(s)) > Rank(Head(t)) THEN 1
  ELSE g_utf8_collate(Tail(s), Tail(t))

compare_path(str1, str2) ==
  g_utf8_collate(g_utf8_casefold(str1), g_utf8_casefold(str2))

compare_pages(page1, page2) == compare_path(page1.file, page2.file)

\* strrchr(path, '.'): the position of the last '.', 0 when there is none.
strrchr_dot(path) ==
  LET dots == {i \in 1..Len(path) : path[i] = "."}
  IN IF dots = {} THEN 0 ELSE CHOOSE i \in dots : \A j \in dots : j <= i

get_extension_first_dot(path) ==
  LET dots == {i \in 1..Len(path) : path[i] = "."}
  IN IF path = NULL \/ dots = {} THEN NULL
     ELSE SubSeq(path, (CHOOSE i \in dots : \A j \in dots : i <= j) + 1,
                 Len(path))

get_extension(path) ==
  IF path = NULL THEN NULL
  ELSE IF strrchr_dot(path) = 0 THEN NULL
  ELSE SubSeq(path, strrchr_dot(path) + 1, Len(path))

\* g_strcmp0: 0 exactly for equal strings (NULL equals only NULL).
g_strcmp0(s1, s2) == IF s1 = s2 THEN 0 ELSE 1

\* GIRARA_LIST_FOREACH over supported_extensions with the g_strcmp0 test.
extension_supported(extension) ==
  \E i \in 1..Len(supported_extensions) :
    g_strcmp0(extension, supported_extensions[i]) = 0

(* ------------------------------ archives ------------------------------- *)
AE_IFREG == "AE_IFREG"
AE_IFDIR == "AE_IFDIR"

\* The content of an entry as an image: NoImg when the decoder rejects it
\* or never finds a header, else the <<width, height>> its header holds.
NoImg == <<>>
\* The header dimensions tried: none, one and both above 0.
Dims == {<<0, 0>>, <<0, 1>>, <<1, 2>>, <<2, 1>>}

Entries ==
  [path : Paths, filetype : {AE_IFDIR}, img : {NoImg}]
  \cup [path : Paths, filetype : {AE_IFREG}, img : {NoImg} \cup Dims]

UniquePaths(s) == \A i, j \in 1..Len(s) : i # j => s[i].path # s[j].path

Archives ==
  {s \in UNION {[1..n -> Entries] : n \in 0..MaxEntries} : UniquePaths(s)}

Reorderings(s) ==
  {t \in [1..Len(s) -> {s[i] : i \in 1..Len(s)}] : UniquePaths(t)}

(* ------------------------------ page list ------------------------------ *)
NoMeta == [file |-> NULL, width |-> 0, height |-> 0]

InsertAt(list, k, data) ==
  SubSeq(list, 1, k - 1) \o <<data>> \o SubSeq(list, k, Len(list))

\* girara_list_append on a list built by girara_sorted_list_new2: the
\* element goes before the first one it does not compare greater than.
girara_list_append(list, data) ==
  LET le == {k \in 1..Len(list) : compare_pages(data, list[k]) <= 0}
  IN IF le = {} THEN Append(list, data)
     ELSE InsertAt(list, CHOOSE k \in le : \A j \in le : k <= j, data)

girara_list_nth_clamped(list, n) ==
  IF Len(list) = 0 THEN NoMeta
  ELSE IF n < Len(list) THEN list[n + 1] ELSE list[Len(list)]

\* girara_list_nth: NULL (here NoMeta) for an index outside the list.
girara_list_nth(list, n) ==
  IF n < Len(list) THEN list[n + 1] ELSE NoMeta

(* ------------------------------- state --------------------------------- *)
VARIABLES
  arch,        \* the archive file: its entries in physical order
  pass,        \* 1: the archive as first packed, 2: after it was re-packed
  firstIndex,  \* the page list the first packing gave
  pc,          \* "idle", or the place the running scan or fetch is at
  live,        \* archive handles allocated and not yet freed
  pos,         \* the handle: number of entry headers read
  aFatal,      \* the handle: a fatal error was met, every call fails
  nblk,        \* the handle: data-block calls answered for this entry
  hdrSent,     \* the handle: the block completing the image header was given
  r,           \* the last libarchive return code
  size,        \* the size last stored by archive_read_data_block
  blk,         \* what buf points at: "none", "data" or "hdr"
  loader,      \* the GdkPixbufLoader of the scan: "none" or "open"
  dec,         \* the loader: "fresh", "sized" (size-prepared sent) or "junk"
  meta,        \* the cb_document_page_meta_t being filled
  cbdoc,       \* the cb_document_t: "none", "live" or "freed"
  docData,     \* zathura_document_set_data was called with the cb_document_t
  numPages,    \* zathura_document_set_number_of_pages, 0 before
  pages,       \* cb_document->pages
  docFrees,    \* times the cb_document_t was passed to g_free
  listFrees,   \* times the page list was passed to girara_list_free
  pg,          \* the host's page object: its index, cb_page->file, width, height
  fetched,     \* the position of the entry whose data the last fetch decoded
  result,      \* the last plugin call: its name, page index and return code
  errSeen      \* a stream-level error was returned to the running operation

handleVars == <<pos, aFatal, nblk, hdrSent, r, size, blk>>
loaderVars == <<loader, dec, meta>>
docVars == <<cbdoc, docData, numPages, pages, docFrees, listFrees>>
packVars == <<arch, pass, firstIndex>>
vars ==
  <<arch, pass, firstIndex, pc, live, pos, aFatal, nblk, hdrSent, r, size,
    blk, loader, dec, meta, cbdoc, docData, numPages, pages, docFrees,
    listFrees, pg, fetched, result, errSeen>>

NoPage == [index |-> 0, file |-> NULL, width |-> 0, height |-> 0]
PageIndexes == 0..MaxEntries

Returned(call, index, code) == [call |-> call, index |-> index, code |-> code]

Init ==
  /\ arch \in Archives
  /\ pass = 1
  /\ firstIndex = <<>>
  /\ pc = "idle"
  /\ live = 0
  /\ pos = 0 /\ aFatal = FALSE /\ nblk = 0 /\ hdrSent = FALSE
  /\ r = ARCHIVE_OK /\ size = 0 /\ blk = "none"
  /\ loader = "none" /\ dec = "fresh" /\ meta = NoMeta
  /\ cbdoc = "none" /\ docData = FALSE /\ numPages = 0 /\ pages = <<>>
  /\ docFrees = 0 /\ listFrees = 0
  /\ pg = NoPage
  /\ fetched = 0
  /\ result = Returned("none", 0, "none")
  /\ errSeen = FALSE

(* ------------------------- libarchive, gdk-pixbuf ---------------------- *)
\* r < ARCHIVE_WARN: a stream-level error, more severe than a warning.
HardError(code) == code < ARCHIVE_WARN

\* The entry the handle stands at.
Entry == arch[pos]

\* A valid image must still deliver its header block within MaxBlocks.
Room == nblk + (IF Entry.img # NoImg /\ ~hdrSent THEN 1 ELSE 0) < MaxBlocks

\* What archive_read_next_header can answer.
HeaderOutcomes ==
  IF aFatal THEN {ARCHIVE_FATAL}
  ELSE {ARCHIVE_FATAL}
       \cup (IF pos = Len(arch) THEN {ARCHIVE_EOF} ELSE {ARCHIVE_OK, ARCHIVE_WARN})

\* What archive_read_data_block can answer: the code, what it stored in
\* size and buf ("keep": nothing stored) and whether the error is fatal.
BlockOutcomes ==
  IF aFatal
  THEN {[code |-> ARCHIVE_FATAL, kind |-> "keep", fatal |-> TRUE]}
  ELSE (IF Entry.img = NoImg \/ hdrSent
        THEN {[code |-> ARCHIVE_EOF, kind |-> "keep", fatal |-> FALSE]}
        ELSE {})
       \cup (IF Room
             THEN [code : {ARCHIVE_OK}, kind : {"zero"}, fatal : {FALSE}]
                  \cup [code : {ARCHIVE_OK, ARCHIVE_WARN}, kind : {"data"},
                        fatal : {FALSE}]
             ELSE {})
       \cup (IF nblk < MaxBlocks /\ ~hdrSent /\ Entry.filetype = AE_IFREG
             THEN [code : {ARCHIVE_OK}, kind : {"hdr"}, fatal : {FALSE}]
             ELSE {})
       \cup (IF nblk < MaxBlocks
             THEN [code : {ARCHIVE_FAILED}, kind : {"zero", "keep"},
                   fatal : {FALSE}]
                  \cup [code : {ARCHIVE_FATAL}, kind : {"zero", "keep"},
                        fatal : {TRUE}]
             ELSE {})

\* What one gdk_pixbuf_loader_write can do: its return value, and the
\* dimensions it sends with size-prepared (NoImg: no signal).  A loader
\* that finds a zero dimension reports an error.  A loader that missed
\* bytes or got bytes twice ("junk") may do either with any block.
Reactions ==
  IF dec = "sized" THEN [ok : BOOLEAN, dims : {NoImg}]
  ELSE IF dec = "junk"
  THEN {re \in [ok : BOOLEAN, dims : {NoImg, Entry.img}] :
          re.dims # NoImg /\ (re.dims[1] = 0 \/ re.dims[2] = 0) => ~re.ok}
  ELSE IF blk = "data" THEN {[ok |-> TRUE, dims |-> NoImg]}
  ELSE IF Entry.img = NoImg THEN {[ok |-> FALSE, dims |-> NoImg]}
  ELSE IF Entry.img[1] > 0 /\ Entry.img[2] > 0
  THEN [ok : BOOLEAN, dims : {Entry.img}]
  ELSE {[ok |-> FALSE, dims |-> Entry.img]}

\* get_pixbuf_size, the size-prepared callback.
get_pixbuf_size(m, dims) ==
  IF dims = NoImg THEN m
  ELSE [m EXCEPT !.width = dims[1], !.height = dims[2]]

\* The locals of a scan or a fetch, as they are when it starts; they are
\* gone when it returns.
HandleLocals ==
  /\ pos' = 0 /\ aFatal' = FALSE /\ nblk' = 0 /\ hdrSent' = FALSE
  /\ r' = ARCHIVE_OK /\ size' = 0 /\ blk' = "none"

(* ------------------------------ the scan ------------------------------- *)
\* archive_read_free on one of n live handles.
archive_read_free(n) == n - 1

\* cb_document_free on the cb_document_t of this document.
FreeDocument ==
  /\ cbdoc' = "freed"
  /\ pages' = <<>>
  /\ listFrees' = listFrees + 1
  /\ docFrees' = docFrees + 1

\* The end of cb_document_open, once read_archive has returned ok.
OpenReturn(ok) ==
  /\ pc' = "idle"
  /\ HandleLocals
  /\ IF ok
     THEN /\ numPages' = Len(pages)
          /\ docData' = TRUE
          /\ result' = Returned("cb_document_open", 0, "ZATHURA_ERROR_OK")
          /\ UNCHANGED <<cbdoc, pages, docFrees, listFrees>>
     ELSE /\ FreeDocument
          /\ result' = Returned("cb_document_open", 0, "ZATHURA_ERROR_UNKNOWN")
          /\ UNCHANGED <<numPages, docData>>

\* cb_document_open up to the first header: the cb_document_t and its
\* sorted list are made, read_archive makes and opens the handle.
cb_document_open ==
  /\ pc = "idle"
  /\ cbdoc = "none"
  /\ errSeen' = FALSE
  /\ \E o \in {"nomem", "openfail", "ok"} :
       IF o = "ok"
       THEN /\ pc' = "s_hdr"
            /\ live' = live + 1
            /\ cbdoc' = "live"
            /\ result' = Returned("cb_document_open", 0, "running")
            /\ UNCHANGED <<handleVars, docData, numPages, pages, docFrees,
                           listFrees>>
       ELSE /\ live' = (IF o = "nomem" THEN live ELSE archive_read_free(live + 1))
            /\ OpenReturn(FALSE)
  /\ UNCHANGED <<packVars, loaderVars, pg, fetched>>

\* The break of the data-block loop once a dimension is known.
ScanBreak_never(m) == FALSE

ScanBreak(m) == m.width > 0 \/ m.height > 0

\* The test that decides whether the meta record joins the page list.
Accept_either(m) == m.width > 0 \/ m.height > 0

Accept(m) == m.width > 0 /\ m.height > 0

\* One turn of the header loop of read_archive.
read_archive_next_header ==
  /\ pc = "s_hdr"
  /\ \E code \in HeaderOutcomes :
       IF code = ARCHIVE_EOF
       THEN /\ live' = archive_read_free(live)
            /\ OpenReturn(TRUE)
            /\ UNCHANGED <<loaderVars, errSeen>>
       ELSE IF HardError(code)
       THEN /\ live' = archive_read_free(live)
            /\ errSeen' = TRUE
            /\ OpenReturn(FALSE)
            /\ UNCHANGED loaderVars
       ELSE /\ r' = code
            /\ pos' = pos + 1
            /\ nblk' = 0 /\ hdrSent' = FALSE
            /\ size' = 0 /\ blk' = "none"
            /\ IF arch[pos + 1].filetype = AE_IFREG
                  /\ extension_supported(get_extension(arch[pos + 1].path))
               THEN /\ meta' = [file |-> arch[pos + 1].path,
                                width |-> 0, height |-> 0]
                    /\ loader' = "open"
                    /\ dec' = "fresh"
                    /\ pc' = "s_read"
               ELSE /\ pc' = "s_hdr"
                    /\ UNCHANGED loaderVars
            /\ UNCHANGED <<live, aFatal, errSeen, docVars, result>>
  /\ UNCHANGED <<packVars, pg, fetched>>

\* What one archive_read_data_block call leaves in the handle.
ReadBlock(o) ==
  /\ r' = o.code
  /\ aFatal' = o.fatal
  /\ nblk' = (IF aFatal \/ o.code = ARCHIVE_EOF THEN nblk ELSE nblk + 1)
  /\ hdrSent' = (hdrSent \/ o.kind = "hdr")
  /\ IF o.kind = "keep"
     THEN UNCHANGED <<size, blk>>
     ELSE /\ size' = (IF o.kind = "zero" THEN 0 ELSE 1)
          /\ blk' = (IF o.kind = "zero" THEN "none" ELSE o.kind)

\* The call of archive_read_data_block in the loop of read_archive.
read_archive_data_block ==
  /\ pc = "s_read"
  /\ \E o \in BlockOutcomes :
       /\ ReadBlock(o)
       /\ errSeen' = (errSeen \/ HardError(o.code))
       /\ dec' = (IF HardError(o.code) /\ dec = "fresh" THEN "junk" ELSE dec)
       /\ pc' = (IF o.code = ARCHIVE_EOF THEN "s_close" ELSE "s_feed")
  /\ UNCHANGED <<packVars, live, pos, loader, meta, docVars, pg, fetched,
                 result>>

\* The body of the data-block loop of read_archive.
read_archive_feed ==
  /\ pc = "s_feed"
  /\ IF size <= 0
     THEN /\ pc' = "s_read"
          /\ UNCHANGED <<meta, dec>>
     ELSE \E re \in Reactions :
            /\ meta' = get_pixbuf_size(meta, re.dims)
            /\ dec' = (IF re.dims # NoImg THEN "sized" ELSE dec)
            /\ pc' = (IF ~re.ok THEN "s_close"
                      ELSE IF ScanBreak(meta') THEN "s_close"
                      ELSE "s_read")
  /\ UNCHANGED <<packVars, live, handleVars, loader, docVars, pg, fetched,
                 result, errSeen>>

\* After the loop: the loader is closed and released, the meta record is
\* appended or freed, and the extension loop is left.
read_archive_finish_entry ==
  /\ pc = "s_close"
  /\ loader' = "none"
  /\ dec' = "fresh"
  /\ pages' = (IF Accept(meta) THEN girara_list_append(pages, meta) ELSE pages)
  /\ meta' = NoMeta
  /\ pc' = "s_hdr"
  /\ UNCHANGED <<packVars, live, handleVars, cbdoc, docData, numPages,
                 docFrees, listFrees, pg, fetched, result, errSeen>>

(* ------------------------------ the pages ------------------------------ *)
\* cb_page_init for a new page object of index i; the host keeps the
\* object when the call succeeds and drops it when it fails.
cb_page_init(i) ==
  /\ pc = "idle"
  /\ cbdoc # "freed" \/ ~docData
  /\ IF ~docData
     THEN /\ result' = Returned("cb_page_init", i, "ZATHURA_ERROR_UNKNOWN")
          /\ UNCHANGED pg
     ELSE IF girara_list_nth(pages, i) = NoMeta
             \/ girara_list_nth(pages, i).file = NULL
     THEN /\ result' = Returned("cb_page_init", i, "ZATHURA_ERROR_UNKNOWN")
          /\ UNCHANGED pg
     ELSE /\ pg' = [index |-> i,
                    file |-> girara_list_nth(pages, i).file,
                    width |-> girara_list_nth(pages, i).width,
                    height |-> girara_list_nth(pages, i).height]
          /\ result' = Returned("cb_page_init", i, "ZATHURA_ERROR_OK")
  /\ UNCHANGED <<packVars, pc, live, handleVars, loaderVars, docVars,
                 fetched, errSeen>>

(* ------------------------------ the fetch ------------------------------ *)
\* The end of cb_page_render_cairo, once load_pixbuf_from_archive returned.
RenderReturn(pixbuf) ==
  /\ pc' = "idle"
  /\ HandleLocals
  /\ result' = Returned("cb_page_render_cairo", pg.index,
                        IF pixbuf THEN "ZATHURA_ERROR_OK"
                        ELSE "ZATHURA_ERROR_UNKNOWN")

\* The exit of load_pixbuf_from_archive when the archive cannot be
\* opened: one of n live handles is left as it is.
fetch_open_failed(n) == n

\* cb_page_render_cairo on the page object, up to the first header.
cb_page_render_cairo ==
  /\ pc = "idle"
  /\ cbdoc = "live" /\ docData
  /\ live < MaxLive
  /\ fetched' = 0
  /\ errSeen' = FALSE
  /\ IF pg.file = NULL
     THEN /\ result' = Returned("cb_page_render_cairo", pg.index,
                                "ZATHURA_ERROR_INVALID_ARGUMENTS")
          /\ UNCHANGED <<pc, live, handleVars>>
     ELSE \E o \in {"nomem", "openfail", "ok"} :
            IF o = "ok"
            THEN /\ pc' = "f_hdr"
                 /\ live' = live + 1
                 /\ result' = Returned("cb_page_render_cairo", pg.index,
                                       "running")
                 /\ UNCHANGED handleVars
            ELSE /\ live' = (IF o = "nomem" THEN live
                             ELSE fetch_open_failed(live + 1))
                 /\ RenderReturn(FALSE)
  /\ UNCHANGED <<packVars, loaderVars, docVars, pg>>

\* The test that selects the entry to decode.
PathMatches(path, file) == compare_path(path, file) = 0

\* One turn of the header loop of load_pixbuf_from_archive.
load_pixbuf_next_header ==
  /\ pc = "f_hdr"
  /\ \E code \in HeaderOutcomes :
       IF code = ARCHIVE_EOF \/ HardError(code)
       THEN /\ live' = archive_read_free(live)
            /\ errSeen' = (errSeen \/ HardError(code))
            /\ RenderReturn(FALSE)
       ELSE /\ r' = code
            /\ pos' = pos + 1
            /\ nblk' = 0 /\ hdrSent' = FALSE
            /\ pc' = (IF PathMatches(arch[pos + 1].path, pg.file)
                      THEN "f_read" ELSE "f_hdr")
            /\ UNCHANGED <<live, aFatal, size, blk, errSeen, result>>
  /\ UNCHANGED <<packVars, loaderVars, docVars, pg, fetched>>

\* One turn of the data-block loop of load_pixbuf_from_archive, and past
\* its end gdk_pixbuf_new_from_stream on the bytes gathered.
load_pixbuf_data_block ==
  /\ pc = "f_read"
  /\ \E o \in BlockOutcomes :
       /\ errSeen' = (errSeen \/ HardError(o.code))
       /\ IF o.code = ARCHIVE_EOF
          THEN \E pixbuf \in BOOLEAN :
                 /\ pixbuf => /\ Entry.img # NoImg
                              /\ Entry.img[1] > 0 /\ Entry.img[2] > 0
                 /\ fetched' = (IF pixbuf THEN pos ELSE fetched)
                 /\ live' = archive_read_free(live)
                 /\ RenderReturn(pixbuf)
          ELSE IF HardError(o.code)
          THEN /\ live' = archive_read_free(live)
               /\ RenderReturn(FALSE)
               /\ UNCHANGED fetched
          ELSE /\ ReadBlock(o)
               /\ pc' = "f_read"
               /\ UNCHANGED <<live, pos, fetched, result>>
  /\ UNCHANGED <<packVars, loaderVars, docVars, pg>>

(* ------------------------------ the release ---------------------------- *)
\* cb_document_free as the host calls it, with the data of the document.
cb_document_free ==
  /\ pc = "idle"
  /\ docFrees < MaxClose
  /\ IF ~docData
     THEN /\ result' = Returned("cb_document_free", 0,
                                "ZATHURA_ERROR_INVALID_ARGUMENTS")
          /\ UNCHANGED docVars
     ELSE IF cbdoc = "live"
     THEN /\ FreeDocument
          /\ result' = Returned("cb_document_free", 0, "ZATHURA_ERROR_OK")
          /\ UNCHANGED <<docData, numPages>>
     ELSE \* the cb_document_t was freed: cb_document->pages reads freed
          \* memory, and g_free gets the same pointer again
          /\ \E stale \in BOOLEAN :
               listFrees' = (IF stale THEN listFrees + 1 ELSE listFrees)
          /\ docFrees' = docFrees + 1
          /\ result' = Returned("cb_document_free", 0, "ZATHURA_ERROR_OK")
          /\ UNCHANGED <<cbdoc, docData, numPages, pages>>
  /\ UNCHANGED <<packVars, pc, live, handleVars, loaderVars, pg, fetched,
                 errSeen>>

(* ------------------------------ re-packing ----------------------------- *)
\* The same entries are packed again in another physical order and the
\* result is opened as a new document.
Repack ==
  /\ pc = "idle"
  /\ pass = 1
  /\ result = Returned("cb_document_open", 0, "ZATHURA_ERROR_OK")
  /\ ~errSeen
  /\ \E t \in Reorderings(arch) : t # arch /\ arch' = t
  /\ pass' = 2
  /\ firstIndex' = pages
  /\ cbdoc' = "none" /\ docData' = FALSE /\ numPages' = 0 /\ pages' = <<>>
  /\ result' = Returned("none", 0, "none")
  /\ UNCHANGED <<pc, live, handleVars, loaderVars, docFrees, listFrees, pg,
                 fetched, errSeen>>

(* ---------------------------- specification ---------------------------- *)
Next ==
  \/ cb_document_open
  \/ read_archive_next_header
  \/ read_archive_data_block
  \/ read_archive_feed
  \/ read_archive_finish_entry
  \/ \E i \in PageIndexes : cb_page_init(i)
  \/ cb_page_render_cairo
  \/ load_pixbuf_next_header
  \/ load_pixbuf_data_block
  \/ cb_document_free
  \/ Repack

Spec == Init /\ [][Next]_vars

\* The open of a document and the requests for its pages alone.
ScanNext ==
  \/ cb_document_open
  \/ read_archive_next_header
  \/ read_archive_data_block
  \/ read_archive_feed
  \/ read_archive_finish_entry
  \/ \E i \in PageIndexes : cb_page_init(i)

ScanSpec == Init /\ [][ScanNext]_vars

\* A scan and a fetch are straight-line code: each step that can be taken
\* is taken.
LiveSpec ==
  /\ Spec
  /\ WF_vars(read_archive_next_header)
  /\ WF_vars(read_archive_data_block)
  /\ WF_vars(read_archive_feed)
  /\ WF_vars(read_archive_finish_entry)
  /\ WF_vars(load_pixbuf_next_header)
  /\ WF_vars(load_pixbuf_data_block)

TypeOK ==
  /\ pc \in {"idle", "s_hdr", "s_read", "s_feed", "s_close", "f_hdr", "f_read"}
  /\ live \in 0..MaxLive
  /\ pos \in 0..Len(arch)
  /\ nblk \in 0..MaxBlocks
  /\ docFrees \in 0..MaxClose
  /\ listFrees \in 0..MaxClose

(* ------------------------------ properties ----------------------------- *)
OpenReturned(code) ==
  pc = "idle" /\ result = Returned("cb_document_open", 0, code)

\* An entry's image header yields a width and a height above 0.
ValidImage(e) == e.img # NoImg /\ e.img[1] > 0 /\ e.img[2] > 0

\* The substring after the last '.' of the path is a registry entry.
RecognizedExtension(path) ==
  \E i \in 1..Len(path) :
    /\ path[i] = "."
    /\ \A j \in (i + 1)..Len(path) : path[j] # "."
    /\ \E k \in 1..Len(supported_extensions) :
         SubSeq(path, i + 1, Len(path)) = supported_extensions[k]

Candidate(e) == e.filetype = AE_IFREG /\ RecognizedExtension(e.path)

Qualifies(e) == Candidate(e) /\ ValidImage(e)

MetaOf(e) == [file |-> e.path, width |-> e.img[1], height |-> e.img[2]]

\* C1: whenever no scan and no fetch is running, every archive handle that
\* was allocated has been freed.
C1_HandlesReleased == pc = "idle" => live = 0

\* C2: an open during which a stream-level error was returned, by a header
\* read or by a data-block read, fails and leaves the document without
\* page list and page count.
C2_StreamErrorFailsOpen ==
  (pc = "idle" /\ result.call = "cb_document_open" /\ errSeen)
    => /\ result.code # "ZATHURA_ERROR_OK"
       /\ ~docData
       /\ numPages = 0

\* C3: in a scan without stream error, an entry whose image cannot be
\* decoded is dropped without touching the page list and the scan goes on
\* with the next header; the open that then reaches the end of the archive
\* succeeds with a page for every valid entry.
C3_DecodeFailureSkipsEntry ==
  [][/\ (pc = "s_close" /\ ~errSeen /\ ~ValidImage(Entry))
          => (pc' = "s_hdr" /\ pages' = pages /\ result' = result
              /\ live' = live)
     /\ (pc = "s_hdr" /\ pc' = "idle" /\ ~errSeen')
          => /\ result'.code = "ZATHURA_ERROR_OK"
             /\ \A i \in 1..Len(arch) :
                  Qualifies(arch[i])
                    => \E k \in 1..Len(pages') : pages'[k] = MetaOf(arch[i])
    ]_vars

C3_Witness ==
  /\ OpenReturned("ZATHURA_ERROR_OK")
  /\ ~errSeen
  /\ Len(arch) = 2
  /\ Candidate(arch[1]) /\ ~ValidImage(arch[1])
  /\ Qualifies(arch[2])
  /\ pages = <<MetaOf(arch[2])>>

\* C4: after an open that met no stream error and succeeded, the page
\* count is the number of regular entries with a recognized extension and
\* a valid image header, and no two pages come from the same entry.
C4_PageCount ==
  (OpenReturned("ZATHURA_ERROR_OK") /\ ~errSeen)
    => /\ numPages = Cardinality({i \in 1..Len(arch) : Qualifies(arch[i])})
       /\ numPages = Len(pages)
       /\ \A k, l \in 1..Len(pages) : k # l => pages[k].file # pages[l].file

C4_Witness ==
  /\ OpenReturned("ZATHURA_ERROR_OK")
  /\ ~errSeen
  /\ Len(arch) = 2
  /\ Qualifies(arch[1])
  /\ ~Qualifies(arch[2])
  /\ numPages = 1

\* C5: the archive re-packed in another physical order gives the same page
\* list as the first packing: same path, width and height at every index.
C5_OrderInvariant ==
  (pass = 2 /\ OpenReturned("ZATHURA_ERROR_OK") /\ ~errSeen)
    => pages = firstIndex

\* C6: a render that succeeds has decoded the archive entry whose path is
\* the one stored for the page.
C6_RenderSameEntry ==
  (pc = "idle" /\ result.call = "cb_page_render_cairo"
     /\ result.code = "ZATHURA_ERROR_OK")
    => arch[fetched].path = pg.file

\* C7: however often close is called, the document and its page list are
\* each freed at most once.
C7_CloseIdempotent == docFrees <= 1 /\ listFrees <= 1

\* C8: a page request with an index at or above the page count fails and
\* leaves page list, page count and page objects as they were; a request
\* below the page count succeeds with the width and height stored at the
\* index.
C8_BadIndexChangesNothing ==
  [][(result'.call = "cb_page_init" /\ result' # result /\ docData)
       => IF result'.index >= numPages
          THEN /\ result'.code = "ZATHURA_ERROR_UNKNOWN"
               /\ pg' = pg
               /\ UNCHANGED docVars
          ELSE /\ result'.code = "ZATHURA_ERROR_OK"
               /\ pg'.file = pages[result'.index + 1].file
               /\ pg'.width = pages[result'.index + 1].width
               /\ pg'.height = pages[result'.index + 1].height
               /\ UNCHANGED docVars
    ]_vars

C8_Witness ==
  /\ pc = "idle"
  /\ docData /\ cbdoc = "live"
  /\ numPages = 1
  /\ result = Returned("cb_page_init", 1, "ZATHURA_ERROR_UNKNOWN")
  /\ pg.file # NULL /\ pg.index = 0

\* C9: a scan or a fetch that has started returns.
C9_Terminates == (pc # "idle") ~> (pc = "idle")

\* C10: in the scan of an entry the loop goes on after a block that gave
\* the decoder no dimensions and no error; no block is read once the
\* decoder has reported dimensions; and no header is read while a decoder
\* session is open.
C10_StopAfterDimensions ==
  [][/\ pc' = "s_read" => dec' # "sized"
     /\ pc' = "s_hdr" => loader' = "none"
     /\ (pc = "s_feed" /\ size > 0 /\ dec = "fresh" /\ blk = "data")
          => pc' = "s_read"
    ]_vars

C10_Witness ==
  /\ pc = "s_close"
  /\ ~errSeen
  /\ dec = "sized"
  /\ nblk = MaxBlocks
  /\ loader = "open"

====
